---- MODULE Spec2Model ----
(***************************************************************************)
(* A model of flag_checker.py: hex-token extraction from a text file,      *)
(* bitmask decoding against the EObjectFlags table, frequency aggregation  *)
(* and the command-line driver with its error handling.                    *)
(*                                                                         *)
(* Text is a sequence of one-character strings.  A Python int is an       *)
(* arbitrary-precision number: it is kept as the sequence of its base-16   *)
(* digits, least significant first, without leading zeros (0 is <<>>),     *)
(* so that values of 32 bits and more keep their exact value.              *)
(***************************************************************************)
EXTENDS Integers, Sequences, FiniteSets, TLC

\* ------------------------------------------------------------------ bounds

\* Longest text drawn for extract_hex_values on its own.
MaxTextLen == 5
\* Most pieces (literals or filler words) in the input file of a program run.
MaxPieces == 2

\* ------------------------------------------------------- characters, ints

DecDigits == {"0", "1", "2", "3", "4", "5", "6", "7", "8", "9"}
LowerHex == {"a", "b", "c", "d", "e", "f"}
UpperHex == {"A", "B", "C", "D", "E", "F"}

\* The regex class [0-9a-fA-F].
IsHexDigit(c) == c \in DecDigits \cup LowerHex \cup UpperHex

\* The value int(_, 16) gives one digit, either case.
HexDigitValue(c) ==
  CASE c = "0" -> 0 [] c = "1" -> 1 [] c = "2" -> 2 [] c = "3" -> 3
    [] c = "4" -> 4 [] c = "5" -> 5 [] c = "6" -> 6 [] c = "7" -> 7
    [] c = "8" -> 8 [] c = "9" -> 9
    [] c \in {"a", "A"} -> 10 [] c \in {"b", "B"} -> 11
    [] c \in {"c", "C"} -> 12 [] c \in {"d", "D"} -> 13
    [] c \in {"e", "E"} -> 14 [] c \in {"f", "F"} -> 15

\* int(digits, 16): each digit read multiplies the value so far by 16 and adds
\* the digit; leading zeros leave the value 0.
RECURSIVE IntOfHexFrom(_, _, _)
IntOfHexFrom(digits, i, acc) ==
  IF i > Len(digits) THEN acc
  ELSE LET d == HexDigitValue(digits[i])
       IN IntOfHexFrom(digits, i + 1,
                       IF acc = <<>> /\ d = 0 THEN <<>> ELSE <<d>> \o acc)

IntOfHex(digits) == IntOfHexFrom(digits, 1, <<>>)

\* a & b on two naturals below 16.
RECURSIVE NibbleAnd(_, _)
NibbleAnd(a, b) ==
  IF a = 0 \/ b = 0 THEN 0
  ELSE (a % 2) * (b % 2) + 2 * NibbleAnd(a \div 2, b \div 2)

\* a & b on two non-negative ints; the truth value of the result is what the
\* code tests, so it is left unnormalised.
BigAnd(a, b) ==
  LET n == IF Len(a) < Len(b) THEN Len(a) ELSE Len(b)
  IN [i \in 1..n |-> NibbleAnd(a[i], b[i])]

\* The truth value of an int: non-zero.
Truthy(x) == \E i \in 1..Len(x) : x[i] # 0

\* a < b on two ints.
BigLess(a, b) ==
  \/ Len(a) < Len(b)
  \/ /\ Len(a) = Len(b)
     /\ \E i \in 1..Len(a) :
          /\ a[i] < b[i]
          /\ \A j \in (i + 1)..Len(a) : a[j] = b[j]

\* ------------------------------------------------------------- flags_dict

\* One entry of the dict literal: the key as written (0x followed by eight
\* digits) and its name.
Entry(d1, d2, d3, d4, d5, d6, d7, d8, name) ==
  [bit |-> IntOfHex(<<d1, d2, d3, d4, d5, d6, d7, d8>>), name |-> name]

\* flags_dict.items(), in the insertion order of the literal.
flags_dict == <<
  Entry("0","0","0","0","0","0","0","1", "RF_Transactional"),
  Entry("0","0","0","0","0","0","0","2", "RF_Unreachable"),
  Entry("0","0","0","0","0","0","0","4", "RF_Public"),
  Entry("0","0","0","0","0","0","0","8", "RF_TagImp"),
  Entry("0","0","0","0","0","0","1","0", "RF_TagExp"),
  Entry("0","0","0","0","0","0","2","0", "RF_SourceModified"),
  Entry("0","0","0","0","0","0","4","0", "RF_TagGarbage"),
  Entry("0","0","0","0","0","0","8","0", "RF_Final"),
  Entry("0","0","0","0","0","1","0","0", "RF_PerObjectLocalized"),
  Entry("0","0","0","0","0","2","0","0", "RF_NeedLoad"),
  Entry("0","0","0","0","0","4","0","0",
        "RF_HighlightedName/RF_EliminateObject/RF_RemappedName/RF_Protected"),
  Entry("0","0","0","0","0","8","0","0",
        "RF_InSingularFunc/RF_Suppress/RF_StateChanged"),
  Entry("0","0","0","0","1","0","0","0", "RF_InEndState"),
  Entry("0","0","0","0","2","0","0","0", "RF_Transient"),
  Entry("0","0","0","0","4","0","0","0", "RF_Preloading"),
  Entry("0","0","0","0","8","0","0","0", "RF_LoadForClient"),
  Entry("0","0","0","1","0","0","0","0", "RF_LoadForServer"),
  Entry("0","0","0","2","0","0","0","0", "RF_LoadForEdit"),
  Entry("0","0","0","4","0","0","0","0", "RF_Standalone"),
  Entry("0","0","0","8","0","0","0","0", "RF_NotForClient"),
  Entry("0","0","1","0","0","0","0","0", "RF_NotForServer"),
  Entry("0","0","2","0","0","0","0","0", "RF_NotForEdit"),
  Entry("0","0","4","0","0","0","0","0", "RF_Destroyed"),
  Entry("0","0","8","0","0","0","0","0", "RF_NeedPostLoad"),
  Entry("0","1","0","0","0","0","0","0", "RF_HasStack"),
  Entry("0","2","0","0","0","0","0","0", "RF_Native"),
  Entry("0","4","0","0","0","0","0","0", "RF_Marked"),
  Entry("0","8","0","0","0","0","0","0", "RF_ErrorShutdown"),
  Entry("1","0","0","0","0","0","0","0", "RF_DebugPostLoad"),
  Entry("2","0","0","0","0","0","0","0", "RF_DebugSerialize"),
  Entry("4","0","0","0","0","0","0","0", "RF_DebugDestroy"),
  Entry("8","0","0","0","0","0","0","0", "RF_DebugDestroy") >>

\* sorted(items): a stable ascending sort of (key, name) pairs.  The keys are
\* distinct, so the key alone orders them.
RECURSIVE InsertByKey(_, _)
InsertByKey(sorted, e) ==
  IF sorted = <<>> THEN <<e>>
  ELSE IF BigLess(e.bit, Head(sorted).bit) THEN <<e>> \o sorted
  ELSE <<Head(sorted)>> \o InsertByKey(Tail(sorted), e)

RECURSIVE SortedItemsFrom(_, _, _)
SortedItemsFrom(items, i, acc) ==
  IF i > Len(items) THEN acc
  ELSE SortedItemsFrom(items, i + 1, InsertByKey(acc, items[i]))

SortedItems(items) == SortedItemsFrom(items, 1, <<>>)

\* ----------------------------------------------------- extract_hex_values

\* The match as re.IGNORECASE would make it: the "x" in either case.
MatchAtIgnoreCase(text, pos) ==
  /\ pos + 2 <= Len(text)
  /\ text[pos] = "0"
  /\ text[pos + 1] \in {"x", "X"}
  /\ IsHexDigit(text[pos + 2])

\* Whether the pattern 0x([0-9a-fA-F]+) matches at pos: a "0", a lower-case
\* "x" (the pattern carries no IGNORECASE flag), then at least one hex digit.
MatchAt(text, pos) ==
  /\ pos + 2 <= Len(text)
  /\ text[pos] = "0"
  /\ text[pos + 1] = "x"
  /\ IsHexDigit(text[pos + 2])

\* The greedy + : the first position from p on that holds no hex digit.
RECURSIVE RunEnd(_, _)
RunEnd(text, p) ==
  IF p > Len(text) \/ ~IsHexDigit(text[p]) THEN p ELSE RunEnd(text, p + 1)

\* re.findall: scan from the left; a match yields its group and the scan
\* goes on behind the match, a failure moves the scan one character on.
RECURSIVE FindAllFrom(_, _, _)
FindAllFrom(text, pos, out) ==
  IF pos > Len(text) THEN out
  ELSE IF MatchAt(text, pos)
       THEN LET e == RunEnd(text, pos + 2)
            IN FindAllFrom(text, e, Append(out, SubSeq(text, pos + 2, e - 1)))
       ELSE FindAllFrom(text, pos + 1, out)

extract_hex_values(text) == FindAllFrom(text, 1, <<>>)

\* ---------------------------------------------------------- analyze_flags

\* An argument of analyze_flags or an element of flag_list: a str of hex
\* digits or an int.
StrArg(digits) == [kind |-> "str", val |-> digits]
IntArg(n) == [kind |-> "int", val |-> n]

\* if isinstance(flag_value, str): flag_value = int(flag_value, 16)
ToInt(arg) == IF arg.kind = "str" THEN IntOfHex(arg.val) ELSE arg.val

\* The loop body with the names deduplicated.
DecodeStepDedup(set_flags, item, value) ==
  IF Truthy(BigAnd(value, item.bit))
     /\ ~\E i \in 1..Len(set_flags) : set_flags[i] = item.name
  THEN Append(set_flags, item.name)
  ELSE set_flags

\* if flag_value & flag_bit: set_flags.append(flag_name)
DecodeStep(set_flags, item, value) ==
  IF Truthy(BigAnd(value, item.bit)) THEN Append(set_flags, item.name)
  ELSE set_flags

RECURSIVE DecodeFrom(_, _, _, _)
DecodeFrom(items, i, value, set_flags) ==
  IF i > Len(items) THEN set_flags
  ELSE DecodeFrom(items, i + 1, value, DecodeStep(set_flags, items[i], value))

analyze_flags(arg) == DecodeFrom(SortedItems(flags_dict), 1, ToInt(arg), <<>>)

\* ------------------------------------------------------------------ state

VARIABLES
  \* the environment of one run of the program
  argc,          \* len(sys.argv)
  fileStatus,    \* what open(filename) meets: ok, missing, denied, directory
  readFails,     \* whether f.read() raises (bytes that do not decode)
  fileText,      \* the text in the file
  \* the program
  pc,            \* position in the __main__ block / analyze_multiple
  handle,        \* f: none (never opened), open, closed
  openCount,     \* calls of open() that returned a handle
  content,       \* content
  hex_values,    \* hex_values, flag_list
  stdout,        \* the lines printed so far
  exitCode,      \* the process's exit status, -1 while it runs
  exc,           \* the exception in flight, "none" if none
  flag_counts,   \* flag_counts: (name, count) in insertion order
  total,         \* total
  vi,            \* index into flag_list of the outer loop
  bi,            \* index into flags_dict.items() of the inner loop
  flag_value,    \* flag_value, after int(flag_value, 16)
  sorted_flags,  \* sorted_flags
  ri,            \* index into sorted_flags of the printing loop
  \* a call of analyze_flags on its own
  dpc, arg, set_flags,
  \* a call of extract_hex_values on its own
  epc, text, tokens

envVars == <<argc, fileStatus, readFails, fileText>>
ioVars == <<handle, openCount, content, stdout, exitCode, exc>>
aggVars == <<hex_values, flag_counts, total, vi, bi, flag_value, sorted_flags, ri>>
mainVars == <<envVars, pc, ioVars, aggVars>>
decodeVars == <<dpc, arg, set_flags>>
extractVars == <<epc, text, tokens>>
vars == <<mainVars, decodeVars, extractVars>>

\* ----------------------------------------------------------------- inputs

filename == "input.txt"

\* Literals and filler words a file is made of, each followed by a blank.
Pieces == {
  <<"0", "x", "1">>,
  <<"0", "x", "2">>,
  <<"0", "x", "5">>,
  <<"0", "x", "c", "0", "0", "0", "0", "0", "0", "0">>,
  <<"0", "x", "1", "0", "0", "0", "0", "0", "0", "0", "0">>,
  <<"0", "X", "1", "F">>,
  <<"z", "z">> }

RECURSIVE Join(_)
Join(ps) == IF ps = <<>> THEN <<>> ELSE Head(ps) \o <<" ">> \o Join(Tail(ps))

FileTexts == { Join(ps) : ps \in UNION { [1..n -> Pieces] : n \in 0..MaxPieces } }

\* Characters of the texts extract_hex_values is called on by itself.
ScanAlphabet == {"0", "x", "X", "f", "F", "g"}
ScanTexts == UNION { [1..n -> ScanAlphabet] : n \in 0..MaxTextLen }

\* Arguments analyze_flags is called on by itself: hex strings of up to ten
\* digits, and the ints they denote.
HighParts == { <<>>, <<"4">>, <<"8">>, <<"C">>, <<"c">>, <<"1", "0">>,
               <<"1", "C">>, <<"F", "F">> }
MidPart == <<"0", "0", "0", "a", "0", "0">>
LowParts == { <<"0">>, <<"1">>, <<"5">>, <<"f">>, <<"F">> }
DecodeTokens ==
  { <<"0">>, <<"5">>, <<"f", "F">> }
    \cup { hi \o MidPart \o lo : hi \in HighParts, lo \in LowParts }
    \cup { hi \o <<"0", "0", "0", "0", "0", "0", "0">> : hi \in HighParts }
DecodeArgs ==
  { StrArg(t) : t \in DecodeTokens } \cup { IntArg(IntOfHex(t)) : t \in DecodeTokens }

\* ------------------------------------------------------------------- Init

MainIdle ==
  /\ argc = 0 /\ fileStatus = "ok" /\ readFails = FALSE /\ fileText = <<>>
  /\ pc = "idle" /\ handle = "none" /\ openCount = 0 /\ content = <<>>
  /\ hex_values = <<>> /\ stdout = <<>> /\ exitCode = -1 /\ exc = "none"
  /\ flag_counts = <<>> /\ total = 0 /\ vi = 0 /\ bi = 0 /\ flag_value = <<>>
  /\ sorted_flags = <<>> /\ ri = 0

DecodeIdle == dpc = "idle" /\ arg = IntArg(<<>>) /\ set_flags = <<>>

ExtractIdle == epc = "idle" /\ text = <<>> /\ tokens = <<>>

\* The process starts: nothing opened, nothing printed.
Init ==
  /\ argc \in {1, 2, 3}
  /\ fileStatus \in {"ok", "missing", "denied", "directory"}
  /\ readFails \in BOOLEAN
  /\ fileText \in FileTexts
  /\ pc = "start" /\ handle = "none" /\ openCount = 0 /\ content = <<>>
  /\ hex_values = <<>> /\ stdout = <<>> /\ exitCode = -1 /\ exc = "none"
  /\ flag_counts = <<>> /\ total = 0 /\ vi = 0 /\ bi = 0 /\ flag_value = <<>>
  /\ sorted_flags = <<>> /\ ri = 0
  /\ DecodeIdle /\ ExtractIdle

InitDecode ==
  /\ MainIdle /\ ExtractIdle
  /\ dpc = "call" /\ arg \in DecodeArgs /\ set_flags = <<>>

InitExtract ==
  /\ MainIdle /\ DecodeIdle
  /\ epc = "call" /\ text \in ScanTexts /\ tokens = <<>>

\* ---------------------------------------------------------------- output

Line(kind, txt, n, d) == [kind |-> kind, txt |-> txt, n |-> n, d |-> d]

UsageLine == Line("usage", "Usage: python flag_checker.py <filename>", 0, 0)
NotFoundLine == Line("not_found", filename, 0, 0)
NoHexLine == Line("no_hex", "No hex values found in file!", 0, 0)
ErrorLine(msg) == Line("error", msg, 0, 0)
FoundLine(n) == Line("found", "", n, 0)
RuleLine == Line("rule", "=", 60, 0)
TitleLine == Line("title", "ANALYZING FLAGS", 0, 0)
HeaderLine(n) == Line("header", "", n, 0)
\* name, count/total; the percentage printed is count / total * 100.
FlagLine(name, count, n) == Line("flag", name, count, n)

\* ------------------------------------------------------------- exceptions

\* The exception open() raises for a path it cannot open.
OpenError(status) ==
  CASE status = "missing" -> "FileNotFoundError"
    [] status = "denied" -> "PermissionError"
    [] status = "directory" -> "IsADirectoryError"

\* str(e)
Message(e) ==
  CASE e = "FileNotFoundError" -> "[Errno 2] No such file or directory: 'input.txt'"
    [] e = "PermissionError" -> "[Errno 13] Permission denied: 'input.txt'"
    [] e = "IsADirectoryError" -> "[Errno 21] Is a directory: 'input.txt'"
    [] e = "UnicodeDecodeError" -> "'utf-8' codec can't decode byte"
    [] e = "SystemExit" -> "1"

\* The classes derived from Exception among those raised; SystemExit derives
\* from BaseException only.
ExceptionClasses ==
  {"FileNotFoundError", "PermissionError", "IsADirectoryError", "UnicodeDecodeError"}
\* except FileNotFoundError, as "except OSError" would catch.
CatchesNotFoundAnyOSError(e) ==
  e \in {"FileNotFoundError", "PermissionError", "IsADirectoryError"}

\* except FileNotFoundError:
CatchesNotFound(e) == e = "FileNotFoundError"

\* except Exception, as a bare "except:" would catch.
CatchesGenericBare(e) == TRUE

\* except Exception as e:
CatchesGeneric(e) == e \in ExceptionClasses

\* ---------------------------------------------------------------- __main__

\* if len(sys.argv) != 2: print usage; sys.exit(1)   (outside the try)
CheckArgs ==
  /\ pc = "start"
  /\ IF argc # 2
     THEN /\ stdout' = Append(stdout, UsageLine)
          /\ exc' = "SystemExit"
          /\ pc' = "propagate"
     ELSE /\ pc' = "open"
          /\ UNCHANGED <<stdout, exc>>
  /\ UNCHANGED <<envVars, handle, openCount, content, exitCode, aggVars,
                 decodeVars, extractVars>>

\* with open(filename, 'r') as f:
OpenFile ==
  /\ pc = "open"
  /\ IF fileStatus = "ok"
     THEN /\ handle' = "open"
          /\ openCount' = openCount + 1
          /\ pc' = "read"
          /\ UNCHANGED exc
     ELSE /\ exc' = OpenError(fileStatus)
          /\ pc' = "except"
          /\ UNCHANGED <<handle, openCount>>
  /\ UNCHANGED <<envVars, content, stdout, exitCode, aggVars,
                 decodeVars, extractVars>>

\* content = f.read()
ReadFile ==
  /\ pc = "read"
  /\ IF readFails
     THEN /\ exc' = "UnicodeDecodeError"
          /\ UNCHANGED content
     ELSE /\ content' = fileText
          /\ UNCHANGED exc
  /\ pc' = "with_exit"
  /\ UNCHANGED <<envVars, handle, openCount, stdout, exitCode, aggVars,
                 decodeVars, extractVars>>

\* Leaving the with block without closing when an exception is in flight.
WithExitLeaks ==
  /\ pc = "with_exit"
  /\ handle' = IF exc = "none" THEN "closed" ELSE handle
  /\ pc' = IF exc = "none" THEN "extract" ELSE "except"
  /\ UNCHANGED <<envVars, openCount, content, stdout, exitCode, exc, aggVars,
                 decodeVars, extractVars>>

\* Leaving the with block: f.__exit__ closes f, whether the block ended
\* normally or by an exception, which then goes on to the handlers.
WithExit ==
  /\ pc = "with_exit"
  /\ handle' = "closed"
  /\ pc' = IF exc = "none" THEN "extract" ELSE "except"
  /\ UNCHANGED <<envVars, openCount, content, stdout, exitCode, exc, aggVars,
                 decodeVars, extractVars>>

\* hex_values = extract_hex_values(content)
Extract ==
  /\ pc = "extract"
  /\ hex_values' = extract_hex_values(content)
  /\ pc' = "check_empty"
  /\ UNCHANGED <<envVars, ioVars, flag_counts, total, vi, bi, flag_value,
                 sorted_flags, ri, decodeVars, extractVars>>

\* The check of hex_values without its sys.exit(1).
CheckEmptyContinues ==
  /\ pc = "check_empty"
  /\ stdout' = Append(stdout, IF hex_values = <<>> THEN NoHexLine
                              ELSE FoundLine(Len(hex_values)))
  /\ pc' = "analyze"
  /\ UNCHANGED <<envVars, handle, openCount, content, exitCode, exc, aggVars,
                 decodeVars, extractVars>>

\* if not hex_values: print(...); sys.exit(1)
\* print(f"Found {len(hex_values)} hex values\n")
CheckEmpty ==
  /\ pc = "check_empty"
  /\ IF hex_values = <<>>
     THEN /\ stdout' = Append(stdout, NoHexLine)
          /\ exc' = "SystemExit"
          /\ pc' = "except"
     ELSE /\ stdout' = Append(stdout, FoundLine(Len(hex_values)))
          /\ pc' = "analyze"
          /\ UNCHANGED exc
  /\ UNCHANGED <<envVars, handle, openCount, content, exitCode, aggVars,
                 decodeVars, extractVars>>

\* The except clauses of the try, in order; an exception none of them
\* catches leaves the try.
HandleException ==
  /\ pc = "except"
  /\ IF CatchesNotFound(exc)
     THEN /\ stdout' = Append(stdout, NotFoundLine)
          /\ exc' = "SystemExit"
     ELSE IF CatchesGeneric(exc)
     THEN /\ stdout' = Append(stdout, ErrorLine(Message(exc)))
          /\ exc' = "SystemExit"
     ELSE UNCHANGED <<stdout, exc>>
  /\ pc' = "propagate"
  /\ UNCHANGED <<envVars, handle, openCount, content, exitCode, aggVars,
                 decodeVars, extractVars>>

\* An uncaught SystemExit(1) ends the process with status 1.
ExitOnSystemExit ==
  /\ pc = "propagate"
  /\ exc = "SystemExit"
  /\ exitCode' = 1
  /\ pc' = "exited"
  /\ UNCHANGED <<envVars, handle, openCount, content, stdout, exc, aggVars,
                 decodeVars, extractVars>>

\* ------------------------------------------------------- analyze_multiple

\* The three banner prints; flag_counts = {}; total = len(flag_list)
StartAnalyze ==
  /\ pc = "analyze"
  /\ stdout' = stdout \o <<RuleLine, TitleLine, RuleLine>>
  /\ flag_counts' = <<>>
  /\ total' = Len(hex_values)
  /\ vi' = 1
  /\ pc' = "for_value"
  /\ UNCHANGED <<envVars, handle, openCount, content, exitCode, exc,
                 hex_values, bi, flag_value, sorted_flags, ri,
                 decodeVars, extractVars>>

\* for flag_value in flag_list: if isinstance(flag_value, str): int(.., 16)
NextValue ==
  /\ pc = "for_value"
  /\ IF vi <= Len(hex_values)
     THEN /\ flag_value' = ToInt(StrArg(hex_values[vi]))
          /\ bi' = 1
          /\ pc' = "for_bit"
     ELSE /\ pc' = "sort"
          /\ UNCHANGED <<flag_value, bi>>
  /\ UNCHANGED <<envVars, ioVars, hex_values, flag_counts, total, vi,
                 sorted_flags, ri, decodeVars, extractVars>>

\* flag_counts.get(name, 0)
Get(counts, name) ==
  IF \E i \in 1..Len(counts) : counts[i].name = name
  THEN counts[CHOOSE i \in 1..Len(counts) : counts[i].name = name].count
  ELSE 0

\* flag_counts[name] = c: an existing key keeps its place, a new one goes last.
Put(counts, name, c) ==
  IF \E i \in 1..Len(counts) : counts[i].name = name
  THEN [i \in 1..Len(counts) |->
          IF counts[i].name = name THEN [name |-> name, count |-> c] ELSE counts[i]]
  ELSE Append(counts, [name |-> name, count |-> c])

\* The increment made for every item, whether its bit is set or not.
CountFlagIgnoringBit(counts, item, value, seen) ==
  Put(counts, item.name, Get(counts, item.name) + 1)

\* The increment counting a name once however many of its bits are set.
CountFlagOncePerName(counts, item, value, seen) ==
  IF Truthy(BigAnd(value, item.bit))
     /\ ~\E j \in 1..Len(seen) :
           seen[j].name = item.name /\ Truthy(BigAnd(value, seen[j].bit))
  THEN Put(counts, item.name, Get(counts, item.name) + 1)
  ELSE counts

\* if flag_value & flag_bit:
\*     flag_counts[flag_name] = flag_counts.get(flag_name, 0) + 1
\* (seen: the items the inner loop has been through, which the code ignores)
CountFlag(counts, item, value, seen) ==
  IF Truthy(BigAnd(value, item.bit))
  THEN Put(counts, item.name, Get(counts, item.name) + 1)
  ELSE counts

\* One iteration of: for flag_bit, flag_name in flags_dict.items()
CountStep ==
  /\ pc = "for_bit"
  /\ flag_counts' = CountFlag(flag_counts, flags_dict[bi], flag_value,
                              SubSeq(flags_dict, 1, bi - 1))
  /\ IF bi < Len(flags_dict)
     THEN /\ bi' = bi + 1
          /\ UNCHANGED <<vi, pc>>
     ELSE /\ vi' = vi + 1
          /\ pc' = "for_value"
          /\ UNCHANGED bi
  /\ UNCHANGED <<envVars, ioVars, hex_values, total, flag_value,
                 sorted_flags, ri, decodeVars, extractVars>>

\* Placing a pair behind those of a greater count only: ties end reversed.
InsertByCountUnstable(sorted, e) ==
  LET k == Cardinality({i \in 1..Len(sorted) : sorted[i].count > e.count})
  IN SubSeq(sorted, 1, k) \o <<e>> \o SubSeq(sorted, k + 1, Len(sorted))

\* The place a stable descending sort gives a pair that comes after those in
\* sorted: behind every pair whose count is not smaller.
InsertByCount(sorted, e) ==
  LET k == Cardinality({i \in 1..Len(sorted) : sorted[i].count >= e.count})
  IN SubSeq(sorted, 1, k) \o <<e>> \o SubSeq(sorted, k + 1, Len(sorted))

RECURSIVE SortByCountFrom(_, _, _)
SortByCountFrom(counts, i, acc) ==
  IF i > Len(counts) THEN acc
  ELSE SortByCountFrom(counts, i + 1, InsertByCount(acc, counts[i]))

\* sorted(flag_counts.items(), key=lambda x: x[1], reverse=True)
SortByCount(counts) == SortByCountFrom(counts, 1, <<>>)

\* sorted_flags = sorted(...); print(f"\nFlag frequency across {total} files:\n")
SortFlags ==
  /\ pc = "sort"
  /\ sorted_flags' = SortByCount(flag_counts)
  /\ stdout' = Append(stdout, HeaderLine(total))
  /\ ri' = 1
  /\ pc' = "for_line"
  /\ UNCHANGED <<envVars, handle, openCount, content, exitCode, exc,
                 hex_values, flag_counts, total, vi, bi, flag_value,
                 decodeVars, extractVars>>

\* for flag_name, count in sorted_flags: print the line
PrintLine ==
  /\ pc = "for_line"
  /\ ri <= Len(sorted_flags)
  /\ stdout' = Append(stdout,
                      FlagLine(sorted_flags[ri].name, sorted_flags[ri].count, total))
  /\ ri' = ri + 1
  /\ UNCHANGED <<envVars, pc, handle, openCount, content, exitCode, exc,
                 hex_values, flag_counts, total, vi, bi, flag_value,
                 sorted_flags, decodeVars, extractVars>>

\* The loop is over, analyze_multiple returns, the try and the script end:
\* the interpreter exits with status 0.
Finish ==
  /\ pc = "for_line"
  /\ ri > Len(sorted_flags)
  /\ exitCode' = 0
  /\ pc' = "exited"
  /\ UNCHANGED <<envVars, handle, openCount, content, stdout, exc, aggVars,
                 decodeVars, extractVars>>

Next ==
  \/ CheckArgs \/ OpenFile \/ ReadFile \/ WithExit \/ Extract \/ CheckEmpty
  \/ HandleException \/ ExitOnSystemExit
  \/ StartAnalyze \/ NextValue \/ CountStep \/ SortFlags \/ PrintLine \/ Finish

Spec == Init /\ [][Next]_vars

\* ---------------------------------------------------------------- library

\* analyze_flags(arg), called on its own.
Decode ==
  /\ dpc = "call"
  /\ set_flags' = analyze_flags(arg)
  /\ dpc' = "done"
  /\ UNCHANGED <<arg, mainVars, extractVars>>

\* extract_hex_values(text), called on its own.
ExtractCall ==
  /\ epc = "call"
  /\ tokens' = extract_hex_values(text)
  /\ epc' = "done"
  /\ UNCHANGED <<text, mainVars, decodeVars>>

NextDecode == Decode
NextExtract == ExtractCall

SpecDecode == InitDecode /\ [][NextDecode]_vars
SpecExtract == InitExtract /\ [][NextExtract]_vars

\* The program runs to its end: a sequential script always takes its next step.
FairSpec == Spec /\ WF_vars(Next)

\* ======================================================== properties

\* Widest value, in bits, the properties look at (ten hex digits).
BitWidth == 40

\* Bit k of a non-negative int, read off its base-16 digits.
TestBit(v, k) ==
  LET i == (k \div 4) + 1
  IN i <= Len(v) /\ (v[i] \div (2 ^ (k % 4))) % 2 = 1

\* The int 2^k.
PowerOfTwo(k) ==
  [i \in 1..((k \div 4) + 1) |-> IF i = (k \div 4) + 1 THEN 2 ^ (k % 4) ELSE 0]

\* The bit positions that are keys of the table, and the name at each.
TableBits == { k \in 0..(BitWidth - 1) :
                 \E i \in 1..Len(flags_dict) : flags_dict[i].bit = PowerOfTwo(k) }
NameOfBit(k) ==
  flags_dict[CHOOSE i \in 1..Len(flags_dict) : flags_dict[i].bit = PowerOfTwo(k)].name
TableNames == { NameOfBit(k) : k \in TableBits }

\* The elements of a finite set of numbers, ascending.
Ascending(S) ==
  [j \in 1..Cardinality(S) |-> CHOOSE k \in S : Cardinality({m \in S : m <= k}) = j]

\* One name per table bit set in v, by ascending bit.
ExpectedNames(v) ==
  LET order == Ascending({k \in TableBits : TestBit(v, k)})
  IN [j \in 1..Len(order) |-> NameOfBit(order[j])]

\* C1: analyze_flags(v) is exactly one name per table bit set in v, by
\* ascending bit, nothing for other bits of v (also beyond 32 bits), a name
\* shared by two set bits once per bit, and the empty sequence for 0.
C1_DecoderExact ==
  dpc = "done" =>
    /\ set_flags = ExpectedNames(ToInt(arg))
    /\ (ToInt(arg) = <<>> => set_flags = <<>>)

\* An int of 33 bits with bits 30 and 31 both set has been decoded.
C1_Witness ==
  /\ dpc = "done"
  /\ arg.kind = "int"
  /\ Len(arg.val) = 9
  /\ set_flags = <<"RF_Transactional", "RF_Public", "RF_Transient",
                   "RF_LoadForClient", "RF_DebugDestroy", "RF_DebugDestroy">>

\* ------------------------------------------------------------------ C4

\* Positions where "0x" (or, ignoring case, "0X") and a hex digit stand.
Candidates(t, ignoreCase) ==
  { p \in 1..(Len(t) - 2) :
      /\ t[p] = "0"
      /\ t[p + 1] = "x" \/ (ignoreCase /\ t[p + 1] = "X")
      /\ IsHexDigit(t[p + 2]) }

\* The position behind the longest run of hex digits that starts at p + 2.
EndOfRun(t, p) ==
  CHOOSE e \in (p + 3)..(Len(t) + 1) :
    /\ \A k \in (p + 2)..(e - 1) : IsHexDigit(t[k])
    /\ e = Len(t) + 1 \/ ~IsHexDigit(t[e])

\* The leftmost non-overlapping matches: a candidate is a match unless it
\* lies inside an earlier match.
MatchStarts(t, ignoreCase) ==
  CHOOSE M \in SUBSET Candidates(t, ignoreCase) :
    \A p \in Candidates(t, ignoreCase) :
      p \in M <=> ~\E q \in M : q < p /\ p < EndOfRun(t, q)

ExpectedTokens(t, ignoreCase) ==
  LET starts == Ascending(MatchStarts(t, ignoreCase))
  IN [j \in 1..Len(starts) |->
        SubSeq(t, starts[j] + 2, EndOfRun(t, starts[j]) - 1)]

RECURSIVE SumCounts(_)
SumCounts(pairs) ==
  IF pairs = <<>> THEN 0 ELSE Head(pairs).count + SumCounts(Tail(pairs))

RECURSIVE SumDecoded(_)
SumDecoded(values) ==
  IF values = <<>> THEN 0
  ELSE Len(analyze_flags(StrArg(Head(values)))) + SumDecoded(Tail(values))

\* The (name, count) pairs of the flag lines printed, in order.
RECURSIVE Reported(_)
Reported(lines) ==
  IF lines = <<>> THEN <<>>
  ELSE IF Head(lines).kind = "flag"
       THEN <<[name |-> Head(lines).txt, count |-> Head(lines).n]>>
              \o Reported(Tail(lines))
       ELSE Reported(Tail(lines))

Reporting == pc = "for_line" \/ (pc = "exited" /\ exitCode = 0)

\* C2: the counts reported add up to the number of names analyze_flags returns
\* over all the values: one increment per value and set table bit.
C2_CountsAddUp ==
  /\ Reporting => SumCounts(sorted_flags) = SumDecoded(hex_values)
  /\ (pc = "exited" /\ exitCode = 0) =>
       SumCounts(Reported(stdout)) = SumDecoded(hex_values)

\* A report over two values, one with both bits named RF_DebugDestroy set.
C2_Witness ==
  /\ pc = "exited" /\ exitCode = 0
  /\ Len(hex_values) = 2
  /\ SumDecoded(hex_values) = 4
  /\ \E i \in 1..Len(stdout) :
       stdout[i] = FlagLine("RF_DebugDestroy", 2, 2)

\* ------------------------------------------------------------------ C3

NonIncreasing(pairs) ==
  \A i \in 1..(Len(pairs) - 1) : pairs[i].count >= pairs[i + 1].count

\* sorted_flags holds the pairs of flag_counts, each once.
SamePairs(a, b) ==
  /\ Len(a) = Len(b)
  /\ \A i \in 1..Len(a) : \E j \in 1..Len(b) : a[i] = b[j]
  /\ \A i, j \in 1..Len(a) : a[i].name = a[j].name => i = j

\* The lowest table bit that carries the name.
FirstBitOf(name) == CHOOSE k \in TableBits :
  /\ NameOfBit(k) = name
  /\ \A m \in TableBits : NameOfBit(m) = name => k <= m

\* Whether value number j of the input sets a bit that carries the name.
ValueSets(j, name) ==
  \E k \in TableBits : NameOfBit(k) = name /\ TestBit(IntOfHex(hex_values[j]), k)

\* Where the name first enters the count: the first value that sets one of
\* its bits, and the lowest such bit in that value.
FirstValueOf(name) == CHOOSE j \in 1..Len(hex_values) :
  /\ ValueSets(j, name)
  /\ \A m \in 1..(j - 1) : ~ValueSets(m, name)
FirstBitIn(j, name) == CHOOSE k \in TableBits :
  /\ NameOfBit(k) = name /\ TestBit(IntOfHex(hex_values[j]), k)
  /\ \A m \in TableBits :
       (NameOfBit(m) = name /\ TestBit(IntOfHex(hex_values[j]), m)) => k <= m
EntersBefore(a, b) ==
  \/ FirstValueOf(a) < FirstValueOf(b)
  \/ /\ FirstValueOf(a) = FirstValueOf(b)
     /\ FirstBitIn(FirstValueOf(a), a) < FirstBitIn(FirstValueOf(b), b)

\* C3 as stated: counts do not increase down the report, and names of equal
\* count stand in ascending order of their table bit, whatever the order in
\* which the input set those bits.
C3_AsStated ==
  Reporting =>
    /\ NonIncreasing(sorted_flags)
    /\ \A i, j \in 1..Len(sorted_flags) :
         (i < j /\ sorted_flags[i].count = sorted_flags[j].count)
           => FirstBitOf(sorted_flags[i].name) < FirstBitOf(sorted_flags[j].name)

\* C3 as amended: counts do not increase down the report, and names of equal
\* count stand in the order in which they entered the count: by the first
\* input value that sets one of the name's bits, then by table bit within
\* that value.
C3_TiesInFirstSeenOrder ==
  Reporting =>
    /\ SamePairs(sorted_flags, flag_counts)
    /\ NonIncreasing(sorted_flags)
    /\ \A i, j \in 1..Len(sorted_flags) :
         (i < j /\ sorted_flags[i].count = sorted_flags[j].count)
           => EntersBefore(sorted_flags[i].name, sorted_flags[j].name)

\* Two names tie, and the one of the higher bit was seen first.
C3_Witness ==
  /\ pc = "exited" /\ exitCode = 0
  /\ hex_values = << <<"2">>, <<"1">> >>
  /\ sorted_flags = << [name |-> "RF_Unreachable", count |-> 1],
                       [name |-> "RF_Transactional", count |-> 1] >>

\* ----------------------------------------------------------------- C10

\* C10: every pair reported has 1 <= count <= total, so that the percentage
\* printed lies in (0, 100], also for a value with bits 30 and 31 both set.
C10_CountWithinTotal ==
  \A i \in 1..Len(stdout) :
    stdout[i].kind = "flag" => 1 <= stdout[i].n /\ stdout[i].n <= stdout[i].d

\* ------------------------------------------------------------------ C5

OpenFailed == argc = 2 /\ fileStatus # "ok"

\* C5 as stated: whenever opening the file fails, for whatever reason, the
\* run prints the file-not-found message alone and exits with status 1.
C5_AsStated ==
  (pc = "exited" /\ OpenFailed) => stdout = <<NotFoundLine>> /\ exitCode = 1

\* C5 as amended: a path that does not exist gives the file-not-found message
\* and status 1; a path that exists and cannot be opened (permission denied,
\* a directory) gives the generic "Error: <message>" line and status 1.
C5_NotFoundOnlyWhenMissing ==
  /\ (pc = "exited" /\ OpenFailed /\ fileStatus = "missing")
       => stdout = <<NotFoundLine>> /\ exitCode = 1
  /\ (pc = "exited" /\ OpenFailed /\ fileStatus # "missing")
       => /\ stdout = <<ErrorLine(Message(OpenError(fileStatus)))>>
          /\ stdout[1].txt # Message("FileNotFoundError")
          /\ exitCode = 1

\* A run on a missing path has ended with the file-not-found message.
C5_Witness ==
  /\ pc = "exited" /\ exitCode = 1
  /\ argc = 2 /\ fileStatus = "missing"
  /\ stdout = <<NotFoundLine>>
  /\ openCount = 0

\* ------------------------------------------------------------------ C6

\* The file opens, is read, and holds no "0x" followed by a hex digit.
ReadsNoToken ==
  /\ argc = 2 /\ fileStatus = "ok" /\ ~readFails
  /\ ~\E p \in 1..Len(fileText) : MatchAt(fileText, p)

AnalysisPcs == {"analyze", "for_value", "for_bit", "sort", "for_line"}

\* C6: a file without hex tokens gives "No hex values found in file!" alone
\* and status 1: the run never reaches the analysis, prints neither the
\* "Found" line nor the banner, and its exit is not turned into "Error: ...".
C6_NoHexExit ==
  ReadsNoToken =>
    /\ pc \notin AnalysisPcs
    /\ \A i \in 1..Len(stdout) : stdout[i] = NoHexLine
    /\ pc = "exited" => stdout = <<NoHexLine>> /\ exitCode = 1

\* A run on a file whose only literal has an upper-case prefix has ended.
C6_Witness ==
  /\ pc = "exited" /\ exitCode = 1
  /\ fileStatus = "ok" /\ ~readFails
  /\ content = <<"0", "X", "1", "F", " ">>
  /\ hex_values = <<>>
  /\ stdout = <<NoHexLine>>

\* ------------------------------------------------------------------ C7

DiagnosticKinds == {"usage", "not_found", "no_hex", "error"}

\* "Found N", the banner, the frequency header, then one line per pair of
\* sorted_flags, in that order and nothing else.
FullReport ==
  /\ Len(hex_values) > 0
  /\ Len(stdout) = 5 + Len(sorted_flags)
  /\ SubSeq(stdout, 1, 5) = <<FoundLine(Len(hex_values)), RuleLine, TitleLine,
                              RuleLine, HeaderLine(Len(hex_values))>>
  /\ \A i \in 1..Len(sorted_flags) :
       stdout[5 + i] = FlagLine(sorted_flags[i].name, sorted_flags[i].count,
                                Len(hex_values))

\* One diagnostic, and nothing of the report.
DiagnosticOnly ==
  /\ Len(stdout) = 1
  /\ stdout[1].kind \in DiagnosticKinds

C7_Outcome ==
  /\ exitCode \in {-1, 0, 1}
  /\ (exitCode = -1) <=> (pc # "exited")
  /\ exitCode = 0 => FullReport
  /\ exitCode = 1 => DiagnosticOnly
  \* a diagnostic is the last thing printed, and the run is on its way out
  /\ \A i \in 1..Len(stdout) :
       stdout[i].kind \in DiagnosticKinds
         => i = Len(stdout) /\ pc \in {"except", "propagate", "exited"}

\* C7: every run ends, either with the full report and status 0 or with one
\* diagnostic and status 1; no run ends with status 0 short of the report,
\* and nothing is printed or analysed once a diagnostic is out.
C7_TwoOutcomes == []C7_Outcome /\ <>(pc = "exited")

\* A run has ended with status 0 and a report of three flag lines.
C7_Witness ==
  /\ pc = "exited" /\ exitCode = 0
  /\ FullReport
  /\ Len(sorted_flags) = 3

\* ------------------------------------------------------------------ C8

\* The inner loop has been through item i of the table for value number j.
Processed(j, i) == j < vi \/ (pc = "for_bit" /\ j = vi /\ i < bi)

\* The (value, table item) pairs gone through whose bit is set and carries
\* the name.
Increments(name) ==
  { ji \in (1..Len(hex_values)) \X (1..Len(flags_dict)) :
      /\ Processed(ji[1], ji[2])
      /\ flags_dict[ji[2]].name = name
      /\ \E k \in TableBits :
           /\ flags_dict[ji[2]].bit = PowerOfTwo(k)
           /\ TestBit(IntOfHex(hex_values[ji[1]]), k) }

C8_Counts ==
  /\ \A i \in 1..Len(flag_counts) :
       /\ flag_counts[i].name \in TableNames
       /\ Increments(flag_counts[i].name) # {}
       /\ flag_counts[i].count = Cardinality(Increments(flag_counts[i].name))
       /\ flag_counts[i].count >= 1
  /\ \A n \in TableNames :
       Increments(n) = {} => ~\E i \in 1..Len(flag_counts) : flag_counts[i].name = n

\* A step changes at most one count, by + 1, and drops no name.
C8_Step ==
  /\ \A n \in TableNames :
       Get(flag_counts', n) \in {Get(flag_counts, n), Get(flag_counts, n) + 1}
  /\ SumCounts(flag_counts') \in {SumCounts(flag_counts), SumCounts(flag_counts) + 1}

\* C8: throughout the aggregation and in the report, a name in the count is
\* the name of a table bit that some value gone through has set, no count is
\* 0, a count only grows, by 1 at a time, and a value with no table bit set
\* adds no name.
C8_CountedNamesAreSet == []C8_Counts /\ [][C8_Step]_vars

\* Two values are through, the second with only bit 32 set, which no table
\* key matches: the count holds the first value's name alone.
C8_Witness ==
  /\ pc = "for_value" /\ vi = 3
  /\ hex_values = << <<"1">>, <<"1", "0", "0", "0", "0", "0", "0", "0", "0">> >>
  /\ flag_counts = << [name |-> "RF_Transactional", count |-> 1] >>

\* ------------------------------------------------------------------ C9

\* C9: the file is opened at most once; the handle is open only while the
\* with block runs, is closed when the tokens are extracted and analysed, and
\* is closed at the exit of every run that opened it, also when reading
\* raised.
C9_HandleReleased ==
  /\ openCount <= 1
  /\ handle = "open" => pc \in {"read", "with_exit"}
  /\ pc \in {"extract", "check_empty"} \cup AnalysisPcs => handle = "closed"
  /\ pc = "exited" =>
       handle = (IF openCount = 1 THEN "closed" ELSE "none")

\* A run whose read raised has ended with the handle closed.
C9_Witness ==
  /\ pc = "exited" /\ exitCode = 1
  /\ readFails /\ openCount = 1
  /\ handle = "closed"
  /\ stdout = <<ErrorLine(Message("UnicodeDecodeError"))>>

====
